---- MODULE Spec2Model ----
(***************************************************************************)
(* mirrorme: the crawl / save / rewrite engine of src/src/mirrorme/mirror.py *)
(* (run_mirror_async and its helpers) as a state machine.                    *)
(*                                                                           *)
(* Representation.  A URL is the record urllib.parse.urlparse yields:        *)
(* scheme, host, path, query, frag, plus `root` (the path starts with "/").  *)
(* A path is a sequence of components, a component a sequence of atoms       *)
(* (runs of characters such as "img", ".", "png"), so that splitext, the     *)
(* sanitising regex and the collision suffix are computed, not looked up.    *)
(* A local file path is a sequence of components below out_dir.              *)
(* asyncio is cooperative: one action is the code between two awaits.        *)
(***************************************************************************)
EXTENDS Integers, Sequences, FiniteSets, Bags, TLC

(* ------------------------------ bounds -------------------------------- *)
\* largest cfg.max_depth drawn in Init
MaxDepth == 2
\* largest cfg.concurrency drawn in Init
MaxConcurrency == 2
\* response handlers (handle_response coroutines) in flight at one time
MaxHandlers == 2

(* --------------------------- small helpers ---------------------------- *)
Last(s) == s[Len(s)]
Front(s) == SubSeq(s, 1, Len(s) - 1)
MaxOf(S) == CHOOSE x \in S : \A y \in S : y <= x
MinOf(S) == CHOOSE x \in S : \A y \in S : x <= y
Range(f) == {f[k] : k \in DOMAIN f}
\* d[k] = v on a Python dict
Put(d, k, v) == (k :> v) @@ d
\* a counter per key
Bump(d, k) == IF k \in DOMAIN d THEN [d EXCEPT ![k] = @ + 1] ELSE (k :> 1) @@ d
\* a log of values per key
Log(d, k, v) == IF k \in DOMAIN d THEN [d EXCEPT ![k] = Append(@, v)] ELSE (k :> <<v>>) @@ d

(* ------------------------------- URLs --------------------------------- *)
Url(scheme, host, root, path, query, frag) ==
    [scheme |-> scheme, host |-> host, root |-> root, path |-> path,
     query |-> query, frag |-> frag]

NoUrl == Url("", "", FALSE, <<>>, "", "")

\* urlparse lower-cases the scheme it returns
LowerScheme(s) == CASE s = "HTTP" -> "http" [] s = "HTTPS" -> "https" [] OTHER -> s

\* urllib.parse.urldefrag(u)[0]: a string without "#" is returned as it is, any
\* other is parsed and put together again without its fragment
url_norm(u) == IF u.frag = "" THEN u ELSE [u EXCEPT !.frag = "", !.scheme = LowerScheme(@)]

\* urllib.parse.urlparse(u).hostname ("" stands for None)
hostname(u) == u.host

\* urllib.parse.urljoin(base, link): a link with another scheme than the base is
\* returned as written, any other result is put together from parsed parts
urljoin(base, link) ==
    LET bscheme == LowerScheme(base.scheme)
    IN  IF link.scheme # "" /\ LowerScheme(link.scheme) # bscheme THEN link
        ELSE IF link.host # "" THEN [link EXCEPT !.scheme = bscheme]
        ELSE IF link.path = <<>>
             THEN [base EXCEPT !.scheme = bscheme,
                               !.query = IF link.query # "" THEN link.query ELSE base.query,
                               !.frag = link.frag]
        ELSE IF link.root
             THEN [base EXCEPT !.scheme = bscheme, !.path = link.path, !.query = link.query,
                               !.frag = link.frag]
        ELSE [base EXCEPT !.scheme = bscheme,
                          !.path = (IF base.path = <<>> THEN <<>> ELSE Front(base.path)) \o link.path,
                          !.root = TRUE, !.query = link.query, !.frag = link.frag]

(* --------------------------- path resolver ---------------------------- *)
\* characters the regex [^A-Za-z0-9._/\-] replaces by "_"
UnsafeAtoms == {" ", "%", "~"}
SafeAtom(a) == IF a \in UnsafeAtoms THEN "_" ELSE a
SafeComp(c) == [i \in DOMAIN c |-> SafeAtom(c[i])]

\* str.lower on an extension
LowerAtom(a) == CASE a = "HTML" -> "html" [] a = "PNG" -> "png" [] OTHER -> a
Lower(c) == [i \in DOMAIN c |-> LowerAtom(c[i])]

\* os.path.splitext on the last component: the extension starts at the last
\* dot, provided a character other than a dot precedes it
Dots(c) == {i \in DOMAIN c : c[i] = "."}
HasExt(c) == Dots(c) # {} /\ \E j \in 1..(MaxOf(Dots(c)) - 1) : c[j] # "."
SplitBase(c) == IF HasExt(c) THEN SubSeq(c, 1, MaxOf(Dots(c)) - 1) ELSE c
SplitExt(c) == IF HasExt(c) THEN SubSeq(c, MaxOf(Dots(c)), Len(c)) ELSE <<>>

\* pathlib drops empty components when joining; lstrip("/") drops leading ones
RECURSIVE DropEmpty(_)
DropEmpty(p) ==
    IF p = <<>> THEN <<>>
    ELSE IF Head(p) = <<>> THEN DropEmpty(Tail(p))
    ELSE <<Head(p)>> \o DropEmpty(Tail(p))

\* hashlib.sha1(url.encode()).hexdigest()[:8]: a name determined by the whole
\* URL string (query included); distinct on the URLs of the modelled site
Sha1(url) == ToString(url)

\* target.exists(): a file, or a directory that holds one
Exists(fs, p) ==
    \/ p \in DOMAIN fs
    \/ \E q \in DOMAIN fs : Len(q) > Len(p) /\ SubSeq(q, 1, Len(p)) = p

\* cfg.assets_dir
assets_dir == "assets"

\* the filename normalisation of to_rel_path, lines 54-66: <<safe, ext>>
NormName(url) ==
    LET path0 == IF url.path = <<>> THEN << <<>> >> ELSE url.path
        path1 == IF Last(path0) = <<>>
                 THEN Front(path0) \o << <<"index", ".", "html">> >>
                 ELSE path0
        ext   == SplitExt(Last(path1))
        path2 == IF ext = <<>>
                 THEN Front(path1) \o << Last(path1) \o <<".", "html">> >>
                 ELSE path1
        ext2  == IF ext = <<>> THEN <<".", "html">> ELSE ext
    IN  << DropEmpty([i \in DOMAIN path2 |-> SafeComp(path2[i])]), ext2 >>

\* the flat branch, lines 82-88
FlatPath(fs, url, safe) ==
    LET target == << <<assets_dir>> >> \o safe
        name   == Last(target)
    IN  IF Exists(fs, target)
        THEN Front(target) \o << SplitBase(name) \o <<"__", Sha1(url)>> \o SplitExt(name) >>
        ELSE target

\* to_rel_path(out_dir, url, cfg, start_host, is_html_hint); the result is
\* relative to out_dir; is_html_hint is "none", "true" or "false"
to_rel_path(fs, url, mode, start_host, is_html_hint) ==
    LET host == IF hostname(url) = "" THEN "unknown" ELSE hostname(url)
        nn   == NormName(url)
        safe == nn[1]
        is_html == IF is_html_hint = "none"
                   THEN Lower(nn[2]) = <<".", "html">>
                   ELSE is_html_hint = "true"
        page_host == IF hostname(url) # "" THEN hostname(url)
                     ELSE IF start_host # "" THEN start_host ELSE "unknown"
    IN  IF is_html THEN << <<"pages">>, <<page_host>> >> \o safe
        ELSE IF mode = "pages"
             THEN << <<"pages">>, <<IF start_host # "" THEN start_host ELSE "unknown">>,
                     <<assets_dir>>, <<host>> >> \o safe
        ELSE IF mode = "per-host"
             THEN << <<assets_dir>>, <<host>> >> \o safe
        ELSE FlatPath(fs, url, safe)

\* os.path.relpath(to_path, start=from_path.parent)
RECURSIVE CommonLen(_, _)
CommonLen(a, b) ==
    IF a = <<>> \/ b = <<>> \/ Head(a) # Head(b) THEN 0
    ELSE 1 + CommonLen(Tail(a), Tail(b))

relpath(to_path, from_dir) ==
    LET k == CommonLen(from_dir, to_path)
    IN  [i \in 1..(Len(from_dir) - k) |-> <<"..">>] \o SubSeq(to_path, k + 1, Len(to_path))

\* make_relative, lines 93-94
make_relative(from_path, to_path) == relpath(to_path, Front(from_path))

\* what a browser opens for a relative reference found in a file of directory dir
RECURSIVE ResolveRel(_, _)
ResolveRel(dir, rel) ==
    IF rel = <<>> THEN dir
    ELSE IF Head(rel) = <<"..">>
         THEN ResolveRel(IF dir = <<>> THEN <<>> ELSE Front(dir), Tail(rel))
    ELSE ResolveRel(Append(dir, Head(rel)), Tail(rel))

(* ------------------------------ the site ------------------------------ *)
\* hosts: "s" is the start host, "c" a second host (a CDN), allowed or not
AbsUrl(host, path, query) == Url("http", host, TRUE, path, query, "")
RelRef(root, path, frag) == Url("", "", root, path, "", frag)

Home   == AbsUrl("s", << <<>> >>, "")
PageA  == AbsUrl("s", << <<"a">> >>, "")
PageB  == AbsUrl("s", << <<"b">> >>, "")
PageD  == AbsUrl("s", << <<"d">> >>, "")
ImgS   == AbsUrl("s", << <<"img", ".", "png">> >>, "")
ImgC   == AbsUrl("c", << <<"img", ".", "png">> >>, "")
CdnPage == AbsUrl("c", << <<"page">> >>, "")
\* a page of the start host that the site links to over https, the scheme
\* written in capitals
PageE  == Url("https", "s", TRUE, << <<"e">> >>, "", "")
PageE_AsWritten == [PageE EXCEPT !.scheme = "HTTPS"]
\* about:blank, a URL without a host (a placeholder image source)
Blank  == Url("about", "", FALSE, << <<"blank">> >>, "", "")

\* a second part of the start host, entered at /t: a paginated listing
\* (/t?p=1, /t?p=2) and the pages /u, /v, /w, /z behind it
DeepHome == AbsUrl("s", << <<"t">> >>, "")
Deep1  == AbsUrl("s", << <<"t">> >>, "p=1")
Deep2  == AbsUrl("s", << <<"t">> >>, "p=2")
Deep3  == AbsUrl("s", << <<"u">> >>, "")
DeepX  == AbsUrl("s", << <<"v">> >>, "")
DeepP  == AbsUrl("s", << <<"w">> >>, "")
DeepQ  == AbsUrl("s", << <<"z">> >>, "")

\* one reference of a document: the tag it sits in and the attribute text as
\* written (raw); after the rewrite pass is_local says the text is now the
\* relative path `local` (raw then only records what was replaced)
Ref(tag, raw) == [tag |-> tag, raw |-> raw, local |-> <<>>, is_local |-> FALSE]

HtmlText(url, csp, refs) == [kind |-> "html", url |-> url, csp |-> csp, refs |-> refs]
AssetBody(url) == [kind |-> "asset", url |-> url, csp |-> FALSE, refs |-> <<>>]

\* page.content() of each page of the site
PageContent(u) ==
    CASE u = Home ->
           HtmlText(u, TRUE,
             << Ref("a", PageA),
                Ref("a", RelRef(TRUE, << <<"b">> >>, "")),
                Ref("a", CdnPage) >>)
      [] u = PageA ->
           HtmlText(u, FALSE,
             << Ref("a", RelRef(FALSE, << <<"d">> >>, "")),
                Ref("a", Home),
                Ref("img", RelRef(FALSE, << <<"img", ".", "png">> >>, "")),
                Ref("img", ImgC),
                Ref("cssurl", ImgS) >>)
      [] u = PageB ->
           HtmlText(u, FALSE,
             << Ref("a", [PageD EXCEPT !.frag = "y"]) >>)
      [] u = PageD ->
           HtmlText(u, FALSE,
             << Ref("a", PageB),
                Ref("a", [PageE_AsWritten EXCEPT !.frag = "y"]),
                Ref("a", PageE_AsWritten),
                Ref("img", Blank) >>)
      [] u = DeepHome ->
           HtmlText(u, FALSE, << Ref("a", Deep1), Ref("a", Deep2), Ref("a", Deep3) >>)
      [] u = Deep1 -> HtmlText(u, FALSE, << Ref("a", DeepX) >>)
      [] u = Deep3 -> HtmlText(u, FALSE, << Ref("a", DeepP) >>)
      [] u = DeepX -> HtmlText(u, FALSE, << Ref("a", DeepP) >>)
      [] u = DeepP -> HtmlText(u, FALSE, << Ref("a", DeepQ) >>)
      [] u = DeepQ -> HtmlText(u, FALSE, << Ref("img", ImgS) >>)
      [] OTHER -> HtmlText(u, FALSE, <<>>)

\* the content-type header the site sends for a URL: /d is a document served
\* as application/xhtml+xml
ContentType(u) ==
    CASE u \in {Home, PageA, PageB, CdnPage, PageE, PageE_AsWritten, Blank,
                DeepHome, Deep1, Deep2, Deep3, DeepX, DeepP, DeepQ} -> "text/html"
      [] u = PageD -> "application/xhtml+xml"
      [] OTHER -> "image/png"

(* ------------------------------- state -------------------------------- *)
VARIABLES
    cfg,              \* MirrorConfig
    visited_pages,    \* Set[str]
    to_visit,         \* List[Tuple[str, int]]
    saved_assets,     \* Dict[str, Path]
    page_html_paths,  \* Dict[str, Path]
    files,            \* the output tree: path -> content
    sem,              \* free permits of asyncio.Semaphore
    main_pc,          \* run_mirror_async: "loop", "gather", "done", "aborted"
    tasks,            \* the _task coroutines of the current batch
    handlers,         \* the handle_response coroutines in flight (a bag)
    mapping,          \* the URL -> path mapping of the rewrite pass
    index,            \* the entries written to index.html
    navs,             \* history: per URL, the depths at which page.goto was called for it
    writes,           \* history: asset body writes per URL
    failed            \* history: the URLs whose page.goto returned no response or a status other than 200

vars == << cfg, visited_pages, to_visit, saved_assets, page_html_paths, files, sem,
           main_pc, tasks, handlers, mapping, index, navs, writes, failed >>

\* MirrorConfig.start_url
start_url == cfg.start_url

\* lines 152-155
start == url_norm(start_url)
start_host == hostname(start)
allowed_hosts == (IF start_host # "" THEN {start_host} ELSE {}) \cup cfg.extra_allowed_hosts

\* MirrorConfig.strip_csp (default)
strip_csp == TRUE

\* the configurations of a run; with all_host_assets set the allow list is
\* read nowhere but next to `or cfg.all_host_assets` (lines 184 and 276), so
\* it is drawn empty there
Configs ==
    {c \in [start_url : {[Home EXCEPT !.frag = "top"]},
            max_depth : 0..MaxDepth,
            concurrency : 0..MaxConcurrency,
            all_host_assets : BOOLEAN,
            assets_mode : {"flat", "per-host", "pages"},
            extra_allowed_hosts : {{}, {"c"}}] :
        c.all_host_assets => c.extra_allowed_hosts = {}}

Init ==
    /\ cfg \in Configs
    /\ visited_pages = {}
    /\ to_visit = << <<start, 0>> >>
    /\ saved_assets = <<>>
    /\ page_html_paths = <<>>
    /\ files = <<>>
    /\ sem = IF cfg.concurrency > 1 THEN cfg.concurrency ELSE 1
    /\ main_pc = "loop"
    /\ tasks = <<>>
    /\ handlers = EmptyBag
    /\ mapping = <<>>
    /\ index = <<>>
    /\ navs = <<>>
    /\ writes = <<>>
    /\ failed = {}

(* ------------------------- response handler --------------------------- *)
\* one handle_response coroutine: where it waits, url (line 175), status
\* (line 177) and, once resolved, path (line 185)
Handler(pc, url, status, path) == [pc |-> pc, url |-> url, status |-> status, path |-> path]

\* context.on("response", handle_response), line 195: a handler coroutine is
\* started for the response.  Lines 175-179 run at once; the content-type test
\* of line 182 reads the response alone, so a response that fails either test
\* leaves no handler behind.  The others wait at `await res.all_headers()`.
Spawn(hs, res_url, status) ==
    IF status # 200 \/ ContentType(url_norm(res_url)) = "text/html" THEN hs
    ELSE hs (+) SetToBag({Handler("headers", url_norm(res_url), status, <<>>)})

CanSpawn(hs) == BagCardinality(hs) < MaxHandlers

\* line 184 with the scope test left out
AssetInScope_AnyHost(host) == TRUE

\* line 184: the scope test of handle_response
AssetInScope(host) == (host \in allowed_hosts) \/ cfg.all_host_assets

\* lines 184-186, after the headers arrived: scope, path resolution, the
\* saved_assets test; goes on to `await res.body()`
HandleHeaders(h) ==
    /\ main_pc = "gather"
    /\ BagIn(h, handlers)
    /\ h.pc = "headers"
    /\ LET path == to_rel_path(files, h.url, cfg.assets_mode, start_host, "false")
           rest == handlers (-) SetToBag({h})
       IN  IF AssetInScope(hostname(h.url)) /\ h.url \notin DOMAIN saved_assets
           THEN handlers' = rest (+) SetToBag({Handler("body", h.url, h.status, path)})
           ELSE handlers' = rest
    /\ UNCHANGED << cfg, visited_pages, to_visit, saved_assets, page_html_paths, files, sem,
                    main_pc, tasks, mapping, index, navs, writes, failed >>

\* lines 188-191, after the body arrived: write the file, record the path
HandleBody(h) ==
    /\ main_pc = "gather"
    /\ BagIn(h, handlers)
    /\ h.pc = "body"
    /\ files' = Put(files, h.path, AssetBody(h.url))
    /\ saved_assets' = Put(saved_assets, h.url, h.path)
    /\ writes' = Bump(writes, h.url)
    /\ handlers' = handlers (-) SetToBag({h})
    /\ UNCHANGED << cfg, visited_pages, to_visit, page_html_paths, sem, main_pc, tasks,
                    mapping, index, navs, failed >>

\* lines 192-193: res.body() or the write raised; the exception is swallowed
HandleBodyFails(h) ==
    /\ main_pc = "gather"
    /\ BagIn(h, handlers)
    /\ h.pc = "body"
    /\ handlers' = handlers (-) SetToBag({h})
    /\ UNCHANGED << cfg, visited_pages, to_visit, saved_assets, page_html_paths, files, sem,
                    main_pc, tasks, mapping, index, navs, writes, failed >>

(* ----------------------------- fetch_page ----------------------------- *)
AssetTags == {"script", "link", "img", "source", "video", "audio", "srcset"}

\* extract_links, lines 240-247 (and 255-264 for srcset): the references of the
\* given tags, joined to the page URL and normalised, in document order
RECURSIVE extract_links(_, _, _)
extract_links(refs, url_n, tags) ==
    IF refs = <<>> THEN <<>>
    ELSE (IF Head(refs).tag \in tags
          THEN << url_norm(urljoin(url_n, Head(refs).raw)) >>
          ELSE <<>>) \o extract_links(Tail(refs), url_n, tags)

\* lines 267-270 with the host test `host in allowed_hosts`
RECURSIVE QueueAnchors_AllowedHosts(_, _)
QueueAnchors_AllowedHosts(anchors, depth) ==
    IF anchors = <<>> THEN <<>>
    ELSE (IF hostname(Head(anchors)) \in allowed_hosts
          THEN << <<Head(anchors), depth + 1>> >>
          ELSE <<>>) \o QueueAnchors_AllowedHosts(Tail(anchors), depth)

\* lines 267-270: the anchors that are queued, each at depth + 1
RECURSIVE QueueAnchors(_, _)
QueueAnchors(anchors, depth) ==
    IF anchors = <<>> THEN <<>>
    ELSE (IF hostname(Head(anchors)) # "" /\ hostname(Head(anchors)) = start_host
          THEN << <<Head(anchors), depth + 1>> >>
          ELSE <<>>) \o QueueAnchors(Tail(anchors), depth)

\* lines 273-276: the asset URLs that are force-fetched
ForceFetched(refs, url_n) ==
    {a \in Range(extract_links(refs, url_n, AssetTags)) :
        cfg.all_host_assets \/ hostname(a) \in allowed_hosts}

\* the responses the browser itself receives while the page is open: the
\* document and the resources it references
Observable(url_n) ==
    {url_n} \cup Range(extract_links(PageContent(url_n).refs, url_n, AssetTags \cup {"cssurl"}))

\* line 199 without the visited test
SkipFetch_IgnoresVisited(url_n, depth) == depth > cfg.max_depth

\* line 199 without the depth test
SkipFetch_IgnoresDepth(url_n, depth) == url_n \in visited_pages

\* line 199: the entry is dropped
SkipFetch(url_n, depth) == url_n \in visited_pages \/ depth > cfg.max_depth

\* lines 197-201 (under `async with sem`, line 292): the visited / depth test;
\* asyncio starts the tasks of a gather in order
TaskStart(t) ==
    /\ main_pc = "gather"
    /\ t \in DOMAIN tasks
    /\ tasks[t].pc = "wait"
    /\ \A s \in 1..(t - 1) : tasks[s].pc # "wait"
    /\ sem > 0
    /\ LET url_n == url_norm(tasks[t].url)
       IN  IF SkipFetch(url_n, tasks[t].depth)
           THEN /\ tasks' = [tasks EXCEPT ![t].pc = "done"]
                /\ UNCHANGED << visited_pages, sem, navs >>
           ELSE /\ visited_pages' = visited_pages \cup {url_n}
                /\ sem' = sem - 1
                /\ navs' = Log(navs, url_n, tasks[t].depth)
                /\ tasks' = [tasks EXCEPT ![t].pc = "nav"]
    /\ UNCHANGED << cfg, to_visit, saved_assets, page_html_paths, files, main_pc, handlers,
                    mapping, index, writes, failed >>

\* lines 206-209 with the status test left out: the page is processed whatever
\* page.goto returned
Goto_StatusIgnored(t) ==
    /\ main_pc = "gather"
    /\ t \in DOMAIN tasks
    /\ tasks[t].pc = "nav"
    /\ \E outcome \in {"ok", "status", "raise"} :
         CASE outcome = "ok" ->
                /\ tasks' = [tasks EXCEPT ![t].pc = "loaded"]
                /\ UNCHANGED << sem, failed >>
           [] outcome = "status" ->
                /\ tasks' = [tasks EXCEPT ![t].pc = "loaded"]
                /\ failed' = failed \cup {url_norm(tasks[t].url)}
                /\ UNCHANGED sem
           [] outcome = "raise" ->
                /\ tasks' = [tasks EXCEPT ![t].pc = "failed"]
                /\ sem' = sem + 1
                /\ UNCHANGED failed
    /\ UNCHANGED << cfg, visited_pages, to_visit, saved_assets, page_html_paths, files,
                    main_pc, handlers, mapping, index, navs, writes >>

\* lines 206-209 and 279-280: page.goto returns a response with status 200,
\* returns none or another status, or raises (timeout, navigation error)
Goto(t) ==
    /\ main_pc = "gather"
    /\ t \in DOMAIN tasks
    /\ tasks[t].pc = "nav"
    /\ \E outcome \in {"ok", "status", "raise"} :
         CASE outcome = "ok" ->
                /\ tasks' = [tasks EXCEPT ![t].pc = "loaded"]
                /\ UNCHANGED << sem, failed >>
           [] outcome = "status" ->
                /\ tasks' = [tasks EXCEPT ![t].pc = "done"]
                /\ sem' = sem + 1
                /\ failed' = failed \cup {url_norm(tasks[t].url)}
           [] outcome = "raise" ->
                /\ tasks' = [tasks EXCEPT ![t].pc = "failed"]
                /\ sem' = sem + 1
                /\ UNCHANGED failed
    /\ UNCHANGED << cfg, visited_pages, to_visit, saved_assets, page_html_paths, files,
                    main_pc, handlers, mapping, index, navs, writes >>

\* lines 231-276, after `await page.content()`: save the page, queue its
\* anchors, collect the assets to force-fetch
SavePage(t) ==
    /\ main_pc = "gather"
    /\ t \in DOMAIN tasks
    /\ tasks[t].pc = "loaded"
    /\ LET url_n     == url_norm(tasks[t].url)
           html      == PageContent(url_n)
           html_path == to_rel_path(files, url_n, cfg.assets_mode, start_host, "true")
           anchors   == extract_links(html.refs, url_n, {"a"})
       IN  /\ files' = Put(files, html_path, html)
           /\ page_html_paths' = Put(page_html_paths, url_n, html_path)
           /\ to_visit' = to_visit \o QueueAnchors(anchors, tasks[t].depth)
           /\ tasks' = [tasks EXCEPT ![t].pc = "assets",
                                     ![t].pending = ForceFetched(html.refs, url_n)]
    /\ UNCHANGED << cfg, visited_pages, saved_assets, sem, main_pc, handlers, mapping, index,
                    navs, writes, failed >>

\* line 277: `await context.request.get(asset_url)`, which makes the context
\* emit a response for that URL
ForceFetch(t) ==
    /\ main_pc = "gather"
    /\ t \in DOMAIN tasks
    /\ tasks[t].pc = "assets"
    /\ CanSpawn(handlers)
    /\ \E asset_url \in tasks[t].pending, status \in {200, 404} :
         /\ handlers' = Spawn(handlers, asset_url, status)
         /\ tasks' = [tasks EXCEPT ![t].pending = @ \ {asset_url}]
    /\ UNCHANGED << cfg, visited_pages, to_visit, saved_assets, page_html_paths, files, sem,
                    main_pc, mapping, index, navs, writes, failed >>

\* lines 279-280 and 292: page.close(), the semaphore is released
TaskClose(t) ==
    /\ main_pc = "gather"
    /\ t \in DOMAIN tasks
    /\ tasks[t].pc = "assets"
    /\ tasks[t].pending = {}
    /\ tasks' = [tasks EXCEPT ![t].pc = "done"]
    /\ sem' = sem + 1
    /\ UNCHANGED << cfg, visited_pages, to_visit, saved_assets, page_html_paths, files,
                    main_pc, handlers, mapping, index, navs, writes, failed >>

\* a response the browser receives while a page is open (line 195)
ObserveResponse(t) ==
    /\ main_pc = "gather"
    /\ t \in DOMAIN tasks
    /\ tasks[t].pc \in {"nav", "loaded", "assets"}
    /\ CanSpawn(handlers)
    /\ \E res_url \in Observable(url_norm(tasks[t].url)), status \in {200, 404} :
         handlers' = Spawn(handlers, res_url, status)
    /\ UNCHANGED << cfg, visited_pages, to_visit, saved_assets, page_html_paths, files, sem,
                    main_pc, tasks, mapping, index, navs, writes, failed >>

(* ---------------------------- rewrite pass ---------------------------- *)
\* sub_url that makes every reference local, mapped or not
RewriteRef_Always(r, map, base_file) ==
    IF r.is_local THEN r
    ELSE [r EXCEPT !.is_local = TRUE,
                   !.local = make_relative(base_file,
                               IF r.raw \in DOMAIN map THEN map[r.raw]
                               ELSE to_rel_path(<<>>, r.raw, "per-host", start_host, "none"))]

\* sub_url / css_url / repl_srcset, lines 109-145: the attribute text is looked
\* up in the mapping as written; a hit becomes a path relative to base_file
RewriteRef(r, map, base_file) ==
    IF ~r.is_local /\ r.raw \in DOMAIN map
    THEN [r EXCEPT !.is_local = TRUE, !.local = make_relative(base_file, map[r.raw])]
    ELSE r

\* rewrite_urls_in_text(text, mapping, base_file, strip_csp)
rewrite_urls_in_text(text, map, base_file, strip) ==
    IF text.kind # "html" THEN text
    ELSE [text EXCEPT !.csp = IF strip THEN FALSE ELSE @,
                      !.refs = [i \in DOMAIN text.refs |-> RewriteRef(text.refs[i], map, base_file)]]

\* lines 297-299: assets first, pages override
BuildMapping == page_html_paths @@ saved_assets

(* ------------------------------- index -------------------------------- *)
\* the order of Python strings on the characters that occur in the site's URLs
AtomOrder == << ".", "/", "://", "?", "HTTP", "HTTPS", "a", "about", "b", "blank", "c", "d", "e",
               "html", "http", "https", "img", "index", "p=1", "p=2", "page", "png", "s",
               "t", "u", "v", "w", "z" >>
AtomRank(a) == IF \E i \in DOMAIN AtomOrder : AtomOrder[i] = a
               THEN CHOOSE i \in DOMAIN AtomOrder : AtomOrder[i] = a
               ELSE 0

RECURSIVE PathText(_)
PathText(path) ==
    IF path = <<>> THEN <<>> ELSE <<"/">> \o Head(path) \o PathText(Tail(path))

\* the URL as a string
UrlText(u) ==
    <<u.scheme, "://", u.host>> \o PathText(u.path)
      \o (IF u.query # "" THEN <<"?", u.query>> ELSE <<>>)

RECURSIVE TextLess(_, _)
TextLess(x, y) ==
    IF y = <<>> THEN FALSE
    ELSE IF x = <<>> THEN TRUE
    ELSE IF Head(x) = Head(y) THEN TextLess(Tail(x), Tail(y))
    ELSE AtomRank(Head(x)) < AtomRank(Head(y))

\* lines 334-336 listing the pages from the largest URL to the smallest
RECURSIVE SortedIndex_Descending(_, _)
SortedIndex_Descending(urls, paths) ==
    IF urls = {} THEN <<>>
    ELSE LET u == CHOOSE x \in urls : \A y \in urls \ {x} : TextLess(UrlText(y), UrlText(x))
         IN  << <<u, relpath(paths[u], <<>>)>> >> \o SortedIndex_Descending(urls \ {u}, paths)

\* sorted(page_html_paths.items()), lines 334-336, with the path made relative
\* to out_dir
RECURSIVE SortedIndex(_, _)
SortedIndex(urls, paths) ==
    IF urls = {} THEN <<>>
    ELSE LET u == CHOOSE x \in urls : \A y \in urls \ {x} : TextLess(UrlText(x), UrlText(y))
         IN  << <<u, relpath(paths[u], <<>>)>> >> \o SortedIndex(urls \ {u}, paths)

IndexPath == << <<"index", ".", "html">> >>
IndexText(entries) ==
    [kind |-> "index", url |-> NoUrl, csp |-> FALSE,
     refs |-> [i \in DOMAIN entries |->
                 [tag |-> "a", raw |-> entries[i][1], local |-> entries[i][2], is_local |-> TRUE]]]

(* -------------------------- run_mirror_async -------------------------- *)
\* lines 284-288 taking the entries from the tail of the list
RECURSIVE PopBatch_FromTail(_, _, _, _)
PopBatch_FromTail(queue, batch, visited, concurrency) ==
    IF queue # <<>> /\ Len(batch) < concurrency
    THEN PopBatch_FromTail(Front(queue),
                  IF Last(queue)[1] \notin visited THEN Append(batch, Last(queue)) ELSE batch,
                  visited, concurrency)
    ELSE <<queue, batch>>

\* lines 284-288: the inner loop that forms a batch; <<rest of to_visit, batch>>
RECURSIVE PopBatch(_, _, _, _)
PopBatch(queue, batch, visited, concurrency) ==
    IF queue # <<>> /\ Len(batch) < concurrency
    THEN PopBatch(Tail(queue),
                  IF Head(queue)[1] \notin visited THEN Append(batch, Head(queue)) ELSE batch,
                  visited, concurrency)
    ELSE <<queue, batch>>

NextBatch == PopBatch(to_visit, <<>>, visited_pages, cfg.concurrency)

\* lines 283-294: a non-empty batch is formed and its tasks are gathered
FormBatch ==
    /\ main_pc = "loop"
    /\ to_visit # <<>>
    /\ NextBatch[2] # <<>>
    /\ to_visit' = NextBatch[1]
    /\ tasks' = [i \in DOMAIN NextBatch[2] |->
                   [url |-> NextBatch[2][i][1], depth |-> NextBatch[2][i][2],
                    pc |-> "wait", pending |-> {}]]
    /\ main_pc' = "gather"
    /\ UNCHANGED << cfg, visited_pages, saved_assets, page_html_paths, files, sem, handlers,
                    mapping, index, navs, writes, failed >>

\* line 294 not waiting for the whole batch: the loop goes on as soon as one
\* task has returned
GatherDone_Early ==
    /\ main_pc = "gather"
    /\ \E t \in DOMAIN tasks : tasks[t].pc = "done"
    /\ main_pc' = "loop"
    /\ UNCHANGED << cfg, visited_pages, to_visit, saved_assets, page_html_paths, files, sem,
                    tasks, handlers, mapping, index, navs, writes, failed >>

\* line 294: every task of the batch returned
GatherDone ==
    /\ main_pc = "gather"
    /\ \A t \in DOMAIN tasks : tasks[t].pc = "done"
    /\ main_pc' = "loop"
    /\ tasks' = <<>>
    /\ UNCHANGED << cfg, visited_pages, to_visit, saved_assets, page_html_paths, files, sem,
                    handlers, mapping, index, navs, writes, failed >>

\* line 294: gather (return_exceptions is not set) re-raises the exception of a
\* task; it leaves run_mirror_async, and asyncio.run cancels what still runs
GatherRaise ==
    /\ main_pc = "gather"
    /\ \E t \in DOMAIN tasks : tasks[t].pc = "failed"
    /\ main_pc' = "aborted"
    /\ tasks' = [t \in DOMAIN tasks |->
                   IF tasks[t].pc \in {"done", "failed"} THEN tasks[t]
                   ELSE [tasks[t] EXCEPT !.pc = "cancelled"]]
    /\ handlers' = EmptyBag
    /\ UNCHANGED << cfg, visited_pages, to_visit, saved_assets, page_html_paths, files, sem,
                    mapping, index, navs, writes, failed >>

\* lines 283-290 leaving the loop, then lines 296-339 (no await in between):
\* build the mapping, rewrite every saved page, write the index
FinishRun ==
    /\ main_pc = "loop"
    /\ to_visit = <<>> \/ NextBatch[2] = <<>>
    /\ to_visit' = NextBatch[1]
    /\ mapping' = BuildMapping
    /\ index' = SortedIndex(DOMAIN page_html_paths, page_html_paths)
    /\ files' = Put([p \in DOMAIN files |->
                       IF p \in Range(page_html_paths)
                       THEN rewrite_urls_in_text(files[p], mapping', p, strip_csp)
                       ELSE files[p]],
                    IndexPath, IndexText(index'))
    /\ handlers' = EmptyBag
    /\ main_pc' = "done"
    /\ UNCHANGED << cfg, visited_pages, saved_assets, page_html_paths, sem, tasks,
                    navs, writes, failed >>

Next ==
    \/ FormBatch
    \/ GatherDone
    \/ GatherRaise
    \/ FinishRun
    \/ \E t \in 1..MaxConcurrency :
         TaskStart(t) \/ Goto(t) \/ SavePage(t) \/ ForceFetch(t) \/ TaskClose(t)
           \/ ObserveResponse(t)
    \/ \E h \in BagToSet(handlers) : HandleHeaders(h) \/ HandleBody(h) \/ HandleBodyFails(h)

Spec == Init /\ [][Next]_vars

\* runs that enter the site at /t with a depth limit one above MaxDepth
DeepConfigs ==
    [start_url : {DeepHome},
     max_depth : {MaxDepth + 1},
     concurrency : 1..MaxConcurrency,
     all_host_assets : {FALSE},
     assets_mode : {"flat", "per-host", "pages"},
     extra_allowed_hosts : {{}}]

InitDeep ==
    /\ cfg \in DeepConfigs
    /\ visited_pages = {}
    /\ to_visit = << <<start, 0>> >>
    /\ saved_assets = <<>>
    /\ page_html_paths = <<>>
    /\ files = <<>>
    /\ sem = IF cfg.concurrency > 1 THEN cfg.concurrency ELSE 1
    /\ main_pc = "loop"
    /\ tasks = <<>>
    /\ handlers = EmptyBag
    /\ mapping = <<>>
    /\ index = <<>>
    /\ navs = <<>>
    /\ writes = <<>>
    /\ failed = {}

SpecDeep == InitDeep /\ [][Next]_vars

(* ------------------------------- claims ------------------------------- *)
\* the URL a reference of the page at page_url points to
Target(page_url, r) == url_norm(urljoin(page_url, r.raw))

\* the saved pages after the run: <<url, path>> of every page file that holds a document
SavedPages == {<<u, page_html_paths[u]>> : u \in DOMAIN page_html_paths}

\* C1: page.goto is called at most once for every normalised URL, whatever the
\* discoveries and interleavings (the same URL twice in one batch included).
C1_AtMostOneNavigate == \A u \in DOMAIN navs : Len(navs[u]) <= 1

\* C1 witness: one batch holds the same URL twice, both tasks have returned and
\* the URL was navigated once.
C1_Witness ==
    /\ main_pc = "gather"
    /\ \E t1, t2 \in DOMAIN tasks :
         /\ t1 # t2
         /\ url_norm(tasks[t1].url) = url_norm(tasks[t2].url)
         /\ tasks[t1].pc = "done" /\ tasks[t2].pc = "done"
         /\ url_norm(tasks[t1].url) \in DOMAIN page_html_paths
         /\ Len(navs[url_norm(tasks[t1].url)]) = 1

\* C2: a failed navigation (status, timeout or navigation error) loses only
\* that page; the run never aborts: it is never left through an exception.
C2_RunNeverAborts == main_pc # "aborted"

\* every entry that is queued or in the current batch
Entries == Range(to_visit) \cup {<<tasks[t].url, tasks[t].depth>> : t \in DOMAIN tasks}

\* C3: no page is navigated at a depth above max_depth; an entry that is
\* dropped is not marked visited (the visited pages are the navigated ones);
\* every entry other than the start entry has the depth of a navigated parent
\* that links to it, plus one; with max_depth = 0 only the start URL is fetched.
C3_DepthBound ==
    /\ \A u \in DOMAIN navs : \A i \in DOMAIN navs[u] : navs[u][i] <= cfg.max_depth
    /\ visited_pages = DOMAIN navs
    /\ \A e \in Entries :
         \/ e = <<start, 0>>
         \/ \E p \in DOMAIN page_html_paths : \E i \in DOMAIN navs[p] :
              /\ e[1] \in Range(extract_links(PageContent(p).refs, p, {"a"}))
              /\ e[2] = navs[p][i] + 1
    /\ cfg.max_depth = 0 => DOMAIN navs \subseteq {start}

\* C3 witness: a finished run with max_depth = 0 that saved the start page,
\* whose links were queued and dropped.
C3_Witness ==
    /\ main_pc = "done"
    /\ cfg.max_depth = 0
    /\ DOMAIN page_html_paths = {start}
    /\ visited_pages = {start}
    /\ Len(extract_links(PageContent(start).refs, start, {"a"})) > 1

C5_FlatCollisionDistinct ==
    cfg.assets_mode = "flat" =>
      \A u1, u2 \in DOMAIN saved_assets :
         (u1 # u2 /\ NormName(u1)[1] = NormName(u2)[1]) =>
            /\ saved_assets[u1] # saved_assets[u2]
            /\ files[saved_assets[u1]] = AssetBody(u1)

\* C6: the body of an asset URL is written at most once, and the handlers of
\* one URL never hold two different resolved paths (nor one that differs from
\* the recorded path).
C6_OneWriteOnePath ==
    /\ \A u \in DOMAIN writes : writes[u] <= 1
    /\ \A h \in BagToSet(handlers) : h.pc = "body" =>
         /\ h.url \in DOMAIN saved_assets => saved_assets[h.url] = h.path
         /\ \A g \in BagToSet(handlers) : (g.pc = "body" /\ g.url = h.url) => g.path = h.path

\* C7: resolving a URL that is already saved again returns the recorded path,
\* in every placement mode.
C7_ResolveIdempotent ==
    /\ \A u \in DOMAIN saved_assets :
         to_rel_path(files, u, cfg.assets_mode, start_host, "false") = saved_assets[u]
    /\ \A u \in DOMAIN page_html_paths :
         to_rel_path(files, u, cfg.assets_mode, start_host, "true") = page_html_paths[u]

\* C8: no URL is associated with two different paths across saved_assets,
\* page_html_paths and the mapping built from them.
C8_OnePathPerUrl ==
    /\ \A u \in DOMAIN saved_assets \cap DOMAIN page_html_paths :
         saved_assets[u] = page_html_paths[u]
    /\ \A u \in DOMAIN mapping :
         /\ u \in DOMAIN saved_assets => mapping[u] = saved_assets[u]
         /\ u \in DOMAIN page_html_paths => mapping[u] = page_html_paths[u]

\* C9: after the run every reference of a saved page whose target URL is a key
\* of the mapping is a relative path that leads, from the page's directory,
\* to an existing file.
C9_RewriteClosure ==
    main_pc = "done" =>
      \A sp \in SavedPages :
         LET txt == files[sp[2]]
         IN  txt.kind = "html" =>
               \A i \in DOMAIN txt.refs :
                  Target(txt.url, PageContent(txt.url).refs[i]) \in DOMAIN mapping =>
                     /\ txt.refs[i].is_local
                     /\ ResolveRel(Front(sp[2]), txt.refs[i].local) \in DOMAIN files

\* C10: after the run a reference whose target URL has no mapping entry is
\* still in the page as written, and is not a local path.
C10_UnmappedVerbatim ==
    main_pc = "done" =>
      \A sp \in SavedPages :
         LET txt == files[sp[2]]
         IN  txt.kind = "html" =>
               \A i \in DOMAIN txt.refs :
                  Target(txt.url, PageContent(txt.url).refs[i]) \notin DOMAIN mapping =>
                     txt.refs[i] = PageContent(txt.url).refs[i]

\* C10 witness: a rewritten page in which a mapped reference became local and
\* an unmapped one is unchanged.
C10_Witness ==
    /\ main_pc = "done"
    /\ \E sp \in SavedPages :
         LET txt == files[sp[2]]
         IN  /\ txt.kind = "html"
             /\ \E i, j \in DOMAIN txt.refs :
                  /\ Target(txt.url, PageContent(txt.url).refs[i]) \notin DOMAIN mapping
                  /\ txt.refs[i] = PageContent(txt.url).refs[i]
                  /\ txt.refs[j].is_local

\* the anchors of the saved pages as fetch_page joins them to the page URL
\* (absu, line 246), before url_norm; and the start URL as configured
Discovered ==
    {start_url} \cup
    UNION { {urljoin(p, PageContent(p).refs[i].raw) :
               i \in {j \in DOMAIN PageContent(p).refs : PageContent(p).refs[j].tag = "a"}} :
            p \in DOMAIN page_html_paths }

\* two URLs that are equal up to their fragment
DiffersOnlyInFragment(u1, u2) == u1 # u2 /\ [u1 EXCEPT !.frag = ""] = [u2 EXCEPT !.frag = ""]

\* C11: two discovered URLs that differ only in their fragment have one key
\* under url_norm, no key carries a fragment, a key is navigated at most once
\* and has one page file; url_norm never merges URLs that differ in query or path.
C11_FragmentVariantsAreOne ==
    /\ \A u1, u2 \in Discovered :
         /\ DiffersOnlyInFragment(u1, u2) => url_norm(u1) = url_norm(u2)
         /\ url_norm(u1) = url_norm(u2) => (u1.query = u2.query /\ u1.path = u2.path)
    /\ \A u \in visited_pages \cup DOMAIN page_html_paths \cup DOMAIN saved_assets
                 \cup {e[1] : e \in Entries} : u.frag = ""
    /\ \A u \in DOMAIN navs : Len(navs[u]) <= 1

\* C12: at the end of a run every anchor to a host of allowed_hosts found on a
\* page that was saved at a depth below max_depth has been fetched as a page.
C12_AllowedHostTraversed ==
    main_pc = "done" =>
      \A p \in DOMAIN page_html_paths :
         (\E i \in DOMAIN navs[p] : navs[p][i] < cfg.max_depth) =>
            \A a \in Range(extract_links(PageContent(p).refs, p, {"a"})) :
               hostname(a) \in allowed_hosts => a \in DOMAIN navs

\* C13: a URL without a host is never queued as a page, never among the asset
\* URLs a page requests with context.request.get, never resolved for saving
\* and never in saved_assets, in every configuration.
C13_HostlessOutOfScope ==
    /\ \A e \in Entries : hostname(e[1]) # ""
    /\ \A t \in DOMAIN tasks : \A a \in tasks[t].pending : hostname(a) # ""
    /\ \A h \in BagToSet(handlers) : h.pc = "body" => hostname(h.url) # ""
    /\ \A u \in DOMAIN saved_assets : hostname(u) # ""

\* C14: with all_host_assets unset every saved asset, every handler that got
\* past the scope test and every asset URL a page requests is on a host of
\* allowed_hosts; in every configuration a saved asset has a content type
\* without text/html, and an entry of saved_assets is written only by a handler
\* whose response had status 200.
C14_AssetScope ==
    /\ [](/\ ~cfg.all_host_assets =>
               /\ \A u \in DOMAIN saved_assets : hostname(u) \in allowed_hosts
               /\ \A h \in BagToSet(handlers) : h.pc = "body" => hostname(h.url) \in allowed_hosts
               /\ \A t \in DOMAIN tasks : \A a \in tasks[t].pending : hostname(a) \in allowed_hosts
          /\ \A u \in DOMAIN saved_assets : ContentType(u) # "text/html"
          /\ \A h \in BagToSet(handlers) : h.status = 200 /\ ContentType(h.url) # "text/html")
    /\ [][\A u \in DOMAIN saved_assets' :
             (u \notin DOMAIN saved_assets \/ writes'[u] # writes[u]) =>
                \E h \in BagToSet(handlers) :
                   /\ h.pc = "body" /\ h.url = u /\ h.status = 200
                   /\ CopiesIn(h, handlers') < CopiesIn(h, handlers)]_vars

\* C14 witness: all_host_assets unset and the CDN host not allowed; the start
\* host's image is saved while the handler of a status-200 response for the
\* CDN image waits before the scope test.
C14_Witness ==
    /\ ~cfg.all_host_assets
    /\ "c" \notin allowed_hosts
    /\ ImgS \in DOMAIN saved_assets
    /\ ImgC \notin DOMAIN saved_assets
    /\ \E h \in BagToSet(handlers) : h.url = ImgC /\ h.pc = "headers" /\ h.status = 200

\* the page fetches in flight: the tasks between the visited test and their return
InFlight == {t \in DOMAIN tasks : tasks[t].pc \in {"nav", "loaded", "assets"}}

\* max(1, cfg.concurrency)
Limit == IF cfg.concurrency > 1 THEN cfg.concurrency ELSE 1

\* C15: a batch holds at most C entries and at most C page fetches are in
\* flight; an entry leaves the queue only when no task of the previous batch
\* is still unfinished.
C15_BatchSynchronous ==
    /\ [](Len(tasks) <= Limit /\ Cardinality(InFlight) <= Limit)
    /\ [][Len(to_visit') < Len(to_visit) =>
            \A t \in DOMAIN tasks : tasks[t].pc = "done"]_vars

\* C15 witness: two page fetches of a later batch in flight at once under
\* concurrency 2, with entries waiting in the queue.
C15_Witness ==
    /\ main_pc = "gather"
    /\ cfg.concurrency = 2
    /\ Cardinality(InFlight) = 2
    /\ Home \in DOMAIN page_html_paths
    /\ to_visit # <<>>

\* C16: when the batch loop has been left no page fetch is in flight and no
\* queued entry is both unvisited and within max_depth.
C16_LoopExitsOnDrainedFrontier ==
    main_pc = "done" =>
      /\ InFlight = {}
      /\ \A i \in DOMAIN to_visit :
            to_visit[i][1] \in visited_pages \/ to_visit[i][2] > cfg.max_depth

\* C17: the step that builds the mapping and rewrites the pages is taken only
\* when no page fetch and no response handler is in flight; the mapping then
\* holds every saved asset and page, and no later step changes it.
C17_RewriteAfterAllSaves ==
    /\ [](main_pc = "done" =>
            \A u \in DOMAIN saved_assets \cup DOMAIN page_html_paths : u \in DOMAIN mapping)
    /\ [][(main_pc = "loop" /\ main_pc' = "done") =>
            (BagToSet(handlers) = {} /\ InFlight = {})]_vars
    /\ [][main_pc = "done" => mapping' = mapping]_vars

C19_ConcurrencyCoerced ==
    /\ main_pc = "done" => start \in DOMAIN navs
    /\ cfg.concurrency < 1 => Len(tasks) <= 1

\* C20: the index written at the end of a run lists the saved pages, those
\* navigated with a success status, each URL once, without fragment, with its
\* path below the output root, in ascending order of the URL strings.
C20_IndexSortedExact ==
    main_pc = "done" =>
      /\ {index[i][1] : i \in DOMAIN index} = DOMAIN page_html_paths
      /\ Len(index) = Cardinality(DOMAIN page_html_paths)
      /\ \A i \in DOMAIN index :
           /\ index[i][2] = page_html_paths[index[i][1]]
           /\ index[i][1].frag = ""
           /\ index[i][1] \in DOMAIN navs /\ index[i][1] \notin failed
      /\ \A i, j \in DOMAIN index :
           i < j => TextLess(UrlText(index[i][1]), UrlText(index[j][1]))
      /\ files[IndexPath] = IndexText(index)

\* C20 witness: a finished run whose index lists four pages, /a and /b among
\* them, which one batch fetched concurrently.
C20_Witness ==
    /\ main_pc = "done"
    /\ cfg.concurrency = 2
    /\ Len(index) = 4
    /\ index[2][1] = PageA /\ index[3][1] = PageB

\* C21: the queue never holds two entries with one URL, nor an entry whose URL
\* is visited or in the batch that is being fetched.
C21_QueueHoldsUrlOnce ==
    /\ \A i, j \in DOMAIN to_visit : i # j => to_visit[i][1] # to_visit[j][1]
    /\ \A i \in DOMAIN to_visit :
         /\ to_visit[i][1] \notin visited_pages
         /\ \A t \in DOMAIN tasks : url_norm(tasks[t].url) # to_visit[i][1]

\* C22: no batch holds two entries with the same normalised URL (an entry that
\* was dequeued is visited before the next one is looked at).
C22_BatchUrlsDistinct ==
    \A t1, t2 \in DOMAIN tasks :
       t1 # t2 => url_norm(tasks[t1].url) # url_norm(tasks[t2].url)

\* the entries of a list whose URL is not visited, in order
RECURSIVE Unvisited(_, _)
Unvisited(queue, visited) ==
    IF queue = <<>> THEN <<>>
    ELSE (IF Head(queue)[1] \notin visited THEN <<Head(queue)>> ELSE <<>>)
           \o Unvisited(Tail(queue), visited)

\* C23: every step that changes the queue either appends at its tail or takes
\* a prefix from its head; of a prefix taken, exactly the entries whose URL is
\* not visited are dispatched, in queue order, in the batch formed by that step.
C23_FifoDrain ==
    [][to_visit' # to_visit =>
         \/ /\ Len(to_visit') > Len(to_visit)
            /\ SubSeq(to_visit', 1, Len(to_visit)) = to_visit
            /\ tasks' = [t \in DOMAIN tasks |-> [tasks'[t] EXCEPT !.url = tasks[t].url,
                                                                  !.depth = tasks[t].depth]]
         \/ /\ Len(to_visit') < Len(to_visit)
            /\ LET k == Len(to_visit) - Len(to_visit')
                   dispatched == IF main_pc' = "gather"
                                 THEN [t \in DOMAIN tasks' |-> <<tasks'[t].url, tasks'[t].depth>>]
                                 ELSE <<>>
               IN  /\ to_visit' = SubSeq(to_visit, k + 1, Len(to_visit))
                   /\ dispatched = Unvisited(SubSeq(to_visit, 1, k), visited_pages)]_vars

\* C23 witness: concurrency 1; the batch formed last took four entries from the
\* head, skipped the three visited ones and dispatched the fourth; the entry
\* queued after it still waits.
C23_Witness ==
    /\ cfg.concurrency = 1
    /\ main_pc = "gather"
    /\ Len(tasks) = 1
    /\ tasks[1].url = PageE /\ tasks[1].depth = 3
    /\ to_visit = << <<PageE_AsWritten, 3>> >>
    /\ {Home, PageB, PageD} \subseteq visited_pages

\* the URLs an anchor of page p leads to on the start host
Links(p) ==
    {a \in Range(extract_links(PageContent(p).refs, p, {"a"})) : hostname(a) = start_host}

\* the pages within k anchor links of the start URL
RECURSIVE Within(_)
Within(k) ==
    IF k = 0 THEN {start}
    ELSE Within(k - 1) \cup UNION {Links(p) : p \in Within(k - 1)}

\* C24: a run with concurrency >= 1 in which no fetch failed has, when it ends,
\* fetched every start-host page within max_depth anchor links of the start URL.
C24_CrawlComplete ==
    (main_pc = "done" /\ failed = {} /\ cfg.concurrency >= 1) =>
       Within(cfg.max_depth) \subseteq DOMAIN navs

\* the URL -> path entries of the page map and the asset map
Artifacts ==
    {<<u, page_html_paths[u]>> : u \in DOMAIN page_html_paths}
      \cup {<<u, saved_assets[u]>> : u \in DOMAIN saved_assets}

\* C25: two distinct URLs recorded in page_html_paths or saved_assets never
\* have the same path, in every placement mode.
C25_NoSharedArtifactPath ==
    \A x, y \in Artifacts : x[1] # y[1] => x[2] # y[2]
====
